---- MODULE Spec2Model ----
(***************************************************************************)
(* The two command-line scripts of mdt-genai as one state machine:         *)
(*   src/chatgpt.py  upload, assistant, thread, three message+run tasks    *)
(*                   polled to completion, cleanup in a finally block;     *)
(*   src/gemini.py   upload, three generate_content calls each preceded by *)
(*                   pick_available_model, cleanup in a finally block.     *)
(* Every provider call is a step that either returns or raises.            *)
(***************************************************************************)
EXTENDS Integers, Sequences, FiniteSets, TLC

VARIABLES
    script,         \* which script runs: "chatgpt" or "gemini"
    argv_given,     \* len(sys.argv) >= 2
    path_exists,    \* os.path.exists(pdf_path)
    pc,             \* position of the process
    exit_code,      \* process exit status, -1 while running
    pending,        \* what is propagating when the finally block is entered
    calls,          \* provider calls issued so far, in order
    file_obj,       \* the uploaded file handle, NoneVal before upload
    assistant,      \* the created assistant id, NoneVal before creation
    thread,         \* the created thread id, NoneVal before creation
    thread_msgs,    \* the messages of the thread, oldest first
    runs,           \* the runs created on the thread, each with its last known status
    steps,          \* what the current run_thread call has done
    polls,          \* how many non-terminal statuses the provider has reported
    task,           \* the task the process is in, 1..3
    prompts,        \* the prompts submitted so far
    transcript,     \* result of task 1
    factual_feedback,       \* result of task 2
    plausibility_feedback,  \* result of task 3
    returned,       \* the text run_thread or the generation call has just returned
    printed,        \* task results printed so far
    listed,         \* Gemini: <<what list_models did>> while a resolution's result is in use
    model_name      \* Gemini: the model the current generation call uses

vars == <<script, argv_given, path_exists, pc, exit_code, pending,
          calls, file_obj, assistant, thread, thread_msgs, runs, steps, polls, task, prompts,
          transcript, factual_feedback, plausibility_feedback, returned, printed,
          listed, model_name>>

NoneVal == "None"
\* an unset string local whose characters or words the model keeps
NoText == <<>>

-----------------------------------------------------------------------------
(* Bounds of the model. *)

\* most non-terminal statuses the provider reports during one invocation
MaxPolls == 3
\* most models one listing holds
MaxModels == 3
\* most content blocks of an assistant message
MaxBlocks == 2

-----------------------------------------------------------------------------
(* Strings whose characters the program inspects are sequences of          *)
(* characters; str.endswith is the suffix test on them.                    *)

Chars_models == <<"m","o","d","e","l","s","/">>
Chars_gemini_20_flash == <<"g","e","m","i","n","i","-","2",".","0","-","f","l","a","s","h">>
Chars_gemini_15_flash == <<"g","e","m","i","n","i","-","1",".","5","-","f","l","a","s","h">>
Chars_gemini_15_pro == <<"g","e","m","i","n","i","-","1",".","5","-","p","r","o">>
Chars_lite == <<"-","l","i","t","e">>
Chars_8b == <<"-","8","b">>
Chars_exp == <<"-","e","x","p">>
Chars_aqa == <<"a","q","a">>

\* s.endswith(suf)
EndsWith(s, suf) ==
    /\ Len(suf) <= Len(s)
    /\ SubSeq(s, Len(s) - Len(suf) + 1, Len(s)) = suf

\* gemini.py: priority_suffixes
priority_suffixes ==
    << Chars_gemini_20_flash,
       Chars_gemini_20_flash \o Chars_lite,
       Chars_gemini_15_flash \o Chars_8b,
       Chars_gemini_15_flash,
       Chars_gemini_15_pro >>

\* gemini.py: the name returned when nothing can be picked
DefaultModel == Chars_gemini_15_flash \o Chars_8b

\* A model descriptor of the provider: has_methods is
\* hasattr(m, "supported_generation_methods").
Model(n, h, ms) == [name |-> n, has_methods |-> h, methods |-> ms]

\* The descriptors a listing is drawn from.
ModelPool ==
    { Model(Chars_models \o Chars_gemini_20_flash, TRUE, {"generateContent", "countTokens"}),
      Model(Chars_models \o Chars_gemini_20_flash \o Chars_lite, TRUE, {"generateContent"}),
      Model(Chars_models \o Chars_gemini_15_flash \o Chars_8b, TRUE, {"generateContent"}),
      Model(Chars_models \o Chars_gemini_15_flash, TRUE, {"generateContent"}),
      Model(Chars_models \o Chars_gemini_15_pro, TRUE, {"generateContent"}),
      Model(Chars_models \o Chars_gemini_20_flash \o Chars_exp, TRUE, {"generateContent"}),
      Model(Chars_models \o Chars_gemini_20_flash, TRUE, {"embedContent"}),
      Model(Chars_models \o Chars_aqa, FALSE, {}) }

\* The listings list_models can return.
Listings == UNION { [1..n -> ModelPool] : n \in 0..MaxModels }

\* gemini.py: the filter of the list comprehension
IsCandidate(m) == m.has_methods /\ "generateContent" \in m.methods

\* gemini.py: candidates = [m for m in available if ...]
Candidates(available) == SelectSeq(available, IsCandidate)

\* The inner loop "for m in candidates: if m.name.endswith(suf)": the index of
\* the first candidate ending with suf, 0 when there is none.
FirstEnding(cands, suf) ==
    LET hits == { j \in 1..Len(cands) : EndsWith(cands[j].name, suf) }
    IN  IF hits = {} THEN 0 ELSE CHOOSE j \in hits : \A k \in hits : j <= k

\* The nested loops "for suf in priority_suffixes: for m in candidates": the
\* name returned from inside the loops, NoText when they fall through.
RECURSIVE PriorityLoopFrom(_, _)
PriorityLoopFrom(cands, i) ==
    IF i > Len(priority_suffixes) THEN NoText
    ELSE LET j == FirstEnding(cands, priority_suffixes[i])
         IN  IF j # 0 THEN cands[j].name ELSE PriorityLoopFrom(cands, i + 1)

\* The loops nested the other way round: candidates outside, suffixes inside.
RECURSIVE CandidateLoopFrom(_, _)
CandidateLoopFrom(cands, j) ==
    IF j > Len(cands) THEN NoText
    ELSE IF \E i \in 1..Len(priority_suffixes) : EndsWith(cands[j].name, priority_suffixes[i])
         THEN cands[j].name
         ELSE CandidateLoopFrom(cands, j + 1)

CandidateFirst(cands) == CandidateLoopFrom(cands, 1)

PriorityLoop(cands) == PriorityLoopFrom(cands, 1)

\* A fallback that takes the first listed model instead of the first candidate.
PickFromListingUnfiltered(available) ==
    LET cands == Candidates(available)
        byPriority == PriorityLoop(cands)
    IN  IF byPriority # NoText THEN byPriority
        ELSE IF Len(available) > 0 THEN available[1].name
        ELSE DefaultModel

\* gemini.py: the body of the try block once list_models has returned
PickFromListing(available) ==
    LET cands == Candidates(available)
        byPriority == PriorityLoop(cands)
    IN  IF byPriority # NoText THEN byPriority
        ELSE IF Len(cands) > 0 THEN cands[1].name
        ELSE DefaultModel

\* What list_models does: it returns a listing or raises.
ListThrew == [threw |-> TRUE, models |-> <<>>]
ListOutcomes == {ListThrew} \cup { [threw |-> FALSE, models |-> l] : l \in Listings }

\* An except clause that lets the error go on instead of swallowing it.
OnListErrorRaise == [raised |-> TRUE, name |-> NoText]

\* gemini.py: "except Exception as e: print(...)" and the return after it
OnListError == [raised |-> FALSE, name |-> DefaultModel]

\* gemini.py: pick_available_model
pick_available_model(outcome) ==
    IF outcome.threw THEN OnListError
    ELSE [raised |-> FALSE, name |-> PickFromListing(outcome.models)]

-----------------------------------------------------------------------------
(* Prompts and results are sequences of words; str.format replaces the     *)
(* placeholder word of the template by the words of the argument.          *)

Placeholder == "{transcript}"

\* prompts.py is not part of the sources at hand: the three templates are the
\* ones of the specification's end-to-end scenario.
PROMPT_GENERATE_MDT == <<"Generate:">>
PROMPT_FACTUAL_CORRECTNESS == <<"Check facts:", Placeholder>>
PROMPT_PLAUSIBILITY == <<"Check plausibility:", Placeholder>>

\* template.format(transcript=value): one pass over the template, the value is
\* inserted as it is
RECURSIVE Format(_, _)
Format(template, value) ==
    IF template = <<>> THEN <<>>
    ELSE (IF Head(template) = Placeholder THEN value ELSE <<Head(template)>>)
         \o Format(Tail(template), value)

\* The texts a provider answers with.
Texts == { <<"T1">>, <<"T2">> }

\* A further content block of an assistant message.
Annex == <<"annex">>

\* The content of an assistant message: a first text block and up to
\* MaxBlocks - 1 further ones.
Contents == { <<t>> \o [i \in 1..n |-> Annex] : t \in Texts, n \in 0..(MaxBlocks - 1) }

\* The prompt task 3 would submit if it were built from the feedback of task 2.
TaskPromptFromFeedback(t, tr, ff) ==
    IF t = 1 THEN PROMPT_GENERATE_MDT
    ELSE IF t = 2 THEN Format(PROMPT_FACTUAL_CORRECTNESS, tr)
    ELSE Format(PROMPT_PLAUSIBILITY, ff)

\* main: the prompt of task t, given the transcript and the factual feedback
TaskPrompt(t, tr, ff) ==
    IF t = 1 THEN PROMPT_GENERATE_MDT
    ELSE IF t = 2 THEN Format(PROMPT_FACTUAL_CORRECTNESS, tr)
    ELSE Format(PROMPT_PLAUSIBILITY, tr)

-----------------------------------------------------------------------------
(* Run statuses and the polling loop of run_thread. *)

NonTerminal == {"queued", "in_progress", "requires_action"}
Fatal == {"failed", "cancelled", "expired"}
Status == NonTerminal \cup {"completed"} \cup Fatal

\* A loop that does not know "expired" as a fatal status.
AfterStatusNoExpired(s) ==
    IF s = "completed" THEN "break"
    ELSE IF s \in {"failed", "cancelled"} THEN "sys_exit"
    ELSE "sleep"

\* A loop that leaves as soon as the run is being worked on.
AfterStatusEager(s) ==
    IF s \in {"completed", "in_progress"} THEN "break"
    ELSE IF s \in {"failed", "cancelled", "expired"} THEN "sys_exit"
    ELSE "sleep"

\* A loop that only leaves the loop on a fatal status instead of leaving the process.
AfterStatusBreak(s) ==
    IF s = "completed" THEN "break"
    ELSE IF s \in {"failed", "cancelled", "expired"} THEN "break"
    ELSE "sleep"

\* A loop that gives up on any status it does not know.
AfterStatusUnknownFatal(s) ==
    IF s = "completed" THEN "break"
    ELSE IF s \in {"queued", "in_progress"} THEN "sleep"
    ELSE "sys_exit"

\* run_thread: the if/elif of the loop body
AfterStatus(s) ==
    IF s = "completed" THEN "break"
    ELSE IF s \in {"failed", "cancelled", "expired"} THEN "sys_exit"
    ELSE "sleep"

\* time.sleep(2)
SleepSeconds == 2

\* the status fetches of the current run_thread call that returned a status
Fetches == SelectSeq(steps, LAMBDA e : e.op = "retrieve")
Sleeps == SelectSeq(steps, LAMBDA e : e.op = "sleep")
Lists == SelectSeq(steps, LAMBDA e : e.op = "list")

\* messages.list returns the thread's messages newest first
Listed(msgs) == [i \in 1..Len(msgs) |-> msgs[Len(msgs) + 1 - i]]

\* run_thread: messages.data[0].content[0].text.value
LatestText(data) == data[1].content[1]

-----------------------------------------------------------------------------
(* The process. *)

NoFile == [id |-> NoneVal, mime_type |-> ""]

\* An upload_file that goes to the provider without looking at the path.
PathCheckMissing(exists) == "upload"

\* upload_file: "if not os.path.exists(file_path): ... sys.exit(1)"
PathCheck(exists) == IF exists THEN "upload" ELSE "sys_exit"

\* gemini.py upload_file: the mime type sent with the upload
MimeType(sniffed, guessed) ==
    IF sniffed # "" THEN sniffed
    ELSE IF guessed # "" THEN guessed
    ELSE "application/octet-stream"

\* The exit status of a process that ends by an error or sys.exit(1) propagating,
\* or by main returning.
ExitStatus(pend) == IF pend = "none" THEN 0 ELSE 1

Init ==
    /\ script \in {"chatgpt", "gemini"}
    /\ argv_given \in BOOLEAN
    /\ path_exists \in BOOLEAN
    /\ pc = "main"
    /\ exit_code = -1
    /\ pending = "none"
    /\ calls = <<>>
    /\ file_obj = NoFile
    /\ assistant = NoneVal
    /\ thread = NoneVal
    /\ thread_msgs = <<>>
    /\ runs = <<>>
    /\ steps = <<>>
    /\ polls = 0
    /\ task = 1
    /\ prompts = <<>>
    /\ transcript = NoText
    /\ factual_feedback = NoText
    /\ plausibility_feedback = NoText
    /\ returned = NoText
    /\ printed = <<>>
    /\ listed = <<>>
    /\ model_name = NoText

inputs == <<script, argv_given, path_exists>>
resources == <<file_obj, assistant, thread>>
threadState == <<thread_msgs, runs, steps, polls>>
results == <<task, transcript, factual_feedback, plausibility_feedback, returned, printed>>
resolver == <<listed, model_name>>

\* The process ends with status code, nothing of the finally block run by this step.
Exit(code) ==
    /\ pc' = "exit"
    /\ exit_code' = code

\* An error or SystemExit leaves the try block: the finally block runs next.
Unwind(what) ==
    /\ pc' = "finally"
    /\ pending' = what
    /\ UNCHANGED exit_code

\* main of both scripts: the check of sys.argv
CheckArgv ==
    /\ pc = "main"
    /\ IF argv_given
       THEN pc' = "upload_file" /\ UNCHANGED exit_code
       ELSE Exit(1)
    /\ UNCHANGED <<inputs, pending, calls, resources, threadState, prompts, results, resolver>>

\* An upload_file called inside the try block: a failed upload runs the cleanup.
UploadFileInTry ==
    /\ pc = "upload_file"
    /\ script = "chatgpt"
    /\ IF PathCheck(path_exists) = "sys_exit"
       THEN Exit(1) /\ UNCHANGED <<calls, file_obj, pending>>
       ELSE \E ok \in BOOLEAN :
              /\ calls' = Append(calls, "files.create")
              /\ IF ok
                 THEN /\ file_obj' = [id |-> "file-1", mime_type |-> ""]
                      /\ pc' = "create_assistant"
                      /\ UNCHANGED <<exit_code, pending>>
                 ELSE Unwind("Exception") /\ UNCHANGED file_obj
    /\ UNCHANGED <<inputs, assistant, thread, threadState, prompts, results, resolver>>

\* chatgpt.py upload_file
UploadFile ==
    /\ pc = "upload_file"
    /\ script = "chatgpt"
    /\ IF PathCheck(path_exists) = "sys_exit"
       THEN Exit(1) /\ UNCHANGED <<calls, file_obj>>
       ELSE \E ok \in BOOLEAN :
              /\ calls' = Append(calls, "files.create")
              /\ IF ok
                 THEN /\ file_obj' = [id |-> "file-1", mime_type |-> ""]
                      /\ pc' = "create_assistant"
                      /\ UNCHANGED exit_code
                 ELSE Exit(1) /\ UNCHANGED file_obj
    /\ UNCHANGED <<inputs, pending, assistant, thread, threadState, prompts, results, resolver>>

\* chatgpt.py create_assistant, called by main before the try block
CreateAssistant ==
    /\ pc = "create_assistant"
    /\ \E ok \in BOOLEAN :
         /\ calls' = Append(calls, "assistants.create")
         /\ IF ok
            THEN assistant' = "asst-1" /\ pc' = "create_thread" /\ UNCHANGED exit_code
            ELSE Exit(1) /\ UNCHANGED assistant
    /\ UNCHANGED <<inputs, pending, file_obj, thread, threadState, prompts, results, resolver>>

\* chatgpt.py main: client.beta.threads.create(), before the try block
CreateThread ==
    /\ pc = "create_thread"
    /\ \E ok \in BOOLEAN :
         /\ calls' = Append(calls, "threads.create")
         /\ IF ok
            THEN thread' = "thread-1" /\ pc' = "create_message" /\ UNCHANGED exit_code
            ELSE Exit(1) /\ UNCHANGED thread
    /\ UNCHANGED <<inputs, pending, file_obj, assistant, threadState, prompts, results, resolver>>

\* chatgpt.py main: the messages.create of the current task
CreateMessage ==
    /\ pc = "create_message"
    /\ LET prompt == TaskPrompt(task, transcript, factual_feedback)
           msg == [role |-> "user", content |-> <<prompt>>,
                   attachments |-> IF task = 1 THEN {file_obj.id} ELSE {}]
       IN  \E ok \in BOOLEAN :
             /\ calls' = Append(calls, "messages.create")
             /\ prompts' = Append(prompts, prompt)
             /\ IF ok
                THEN /\ thread_msgs' = Append(thread_msgs, msg)
                     /\ pc' = "run_create"
                     /\ UNCHANGED <<pending, exit_code>>
                ELSE Unwind("Exception") /\ UNCHANGED thread_msgs
    /\ UNCHANGED <<inputs, resources, runs, steps, polls, results, resolver>>

\* chatgpt.py run_thread: runs.create
RunCreate ==
    /\ pc = "run_create"
    /\ \E ok \in BOOLEAN, s0 \in {"queued", "in_progress"} :
         /\ calls' = Append(calls, "runs.create")
         /\ steps' = <<>>
         /\ IF ok
            THEN /\ runs' = Append(runs, [status |-> s0])
                 /\ pc' = "retrieve"
                 /\ UNCHANGED <<pending, exit_code>>
            ELSE Unwind("Exception") /\ UNCHANGED runs
    /\ UNCHANGED <<inputs, resources, thread_msgs, polls, prompts, results, resolver>>

\* chatgpt.py run_thread: one turn of the loop up to the sleep. The provider
\* answers with any status (at most MaxPolls non-terminal ones in all) or the
\* call raises; a run that completes has left its answer in the thread.
RunRetrieve ==
    /\ pc = "retrieve"
    /\ \E ok \in BOOLEAN, s \in Status, c \in Contents :
         /\ s \in NonTerminal => polls < MaxPolls
         /\ calls' = Append(calls, "runs.retrieve")
         /\ IF ~ok
            THEN Unwind("Exception") /\ UNCHANGED <<runs, steps, polls, thread_msgs>>
            ELSE /\ runs' = [runs EXCEPT ![Len(runs)].status = s]
                 /\ steps' = Append(steps, [op |-> "retrieve", status |-> s, secs |-> 0])
                 /\ polls' = IF s \in NonTerminal THEN polls + 1 ELSE polls
                 /\ thread_msgs' =
                      IF s = "completed"
                      THEN Append(thread_msgs,
                                  [role |-> "assistant", content |-> c, attachments |-> {}])
                      ELSE thread_msgs
                 /\ CASE AfterStatus(s) = "break" ->
                           pc' = "list_messages" /\ UNCHANGED <<pending, exit_code>>
                      [] AfterStatus(s) = "sys_exit" -> Unwind("SystemExit")
                      [] OTHER -> pc' = "sleep" /\ UNCHANGED <<pending, exit_code>>
    /\ UNCHANGED <<inputs, resources, prompts, results, resolver>>

\* chatgpt.py run_thread: time.sleep(2) at the end of the loop body
Sleep ==
    /\ pc = "sleep"
    /\ steps' = Append(steps, [op |-> "sleep", status |-> NoneVal, secs |-> SleepSeconds])
    /\ pc' = "retrieve"
    /\ UNCHANGED <<inputs, exit_code, pending, calls, resources, thread_msgs, runs,
                   polls, prompts, results, resolver>>

\* chatgpt.py run_thread: messages.list and the return statement
ListMessages ==
    /\ pc = "list_messages"
    /\ \E ok \in BOOLEAN :
         /\ calls' = Append(calls, "messages.list")
         /\ IF ok
            THEN /\ steps' = Append(steps, [op |-> "list", status |-> NoneVal, secs |-> 0])
                 /\ returned' = LatestText(Listed(thread_msgs))
                 /\ pc' = "returned"
                 /\ UNCHANGED <<pending, exit_code>>
            ELSE /\ Unwind("Exception")
                 /\ UNCHANGED <<steps, returned>>
    /\ UNCHANGED <<inputs, resources, thread_msgs, runs, polls, prompts, task, transcript,
                   factual_feedback, plausibility_feedback, printed, resolver>>

\* A main that resolves the model once: the later tasks of the Gemini script go
\* to the generation call without a new listing.
StoreResultCached ==
    /\ pc = "returned"
    /\ transcript' = IF task = 1 THEN returned ELSE transcript
    /\ factual_feedback' = IF task = 2 THEN returned ELSE factual_feedback
    /\ plausibility_feedback' = IF task = 3 THEN returned ELSE plausibility_feedback
    /\ printed' = Append(printed, returned)
    /\ returned' = NoText
    /\ steps' = <<>>
    /\ IF task < 3
       THEN /\ task' = task + 1
            /\ pc' = IF script = "chatgpt" THEN "create_message" ELSE "generate"
       ELSE /\ UNCHANGED task
            /\ pc' = "finally"
    /\ UNCHANGED <<inputs, exit_code, pending, calls, resources, thread_msgs, runs, polls, prompts,
                   resolver>>

\* main of both scripts: the returned text is stored in the task's variable
\* and printed; the next task starts, or the try block ends
StoreResult ==
    /\ pc = "returned"
    /\ transcript' = IF task = 1 THEN returned ELSE transcript
    /\ factual_feedback' = IF task = 2 THEN returned ELSE factual_feedback
    /\ plausibility_feedback' = IF task = 3 THEN returned ELSE plausibility_feedback
    /\ printed' = Append(printed, returned)
    /\ returned' = NoText
    /\ steps' = <<>>
    /\ IF task < 3
       THEN /\ task' = task + 1
            /\ pc' = IF script = "chatgpt" THEN "create_message" ELSE "pick_model"
       ELSE /\ UNCHANGED task
            /\ pc' = "finally"
    /\ UNCHANGED <<inputs, exit_code, pending, calls, resources, thread_msgs, runs, polls, prompts,
                   resolver>>

\* A cleanup that notes a failed file delete and still deletes the assistant.
DeleteFileBestEffort ==
    /\ pc = "finally"
    /\ script = "chatgpt"
    /\ steps' = <<>>
    /\ \E ok \in BOOLEAN :
         /\ calls' = Append(calls, "files.delete")
         /\ pc' = "delete_assistant"
         /\ pending' = IF ok THEN pending ELSE "Exception"
         /\ UNCHANGED exit_code
    /\ UNCHANGED <<inputs, resources, thread_msgs, runs, polls, prompts, results, resolver>>

\* chatgpt.py main, finally block: client.files.delete(file_obj.id); the frame
\* of run_thread is gone by now
DeleteFile ==
    /\ pc = "finally"
    /\ script = "chatgpt"
    /\ steps' = <<>>
    /\ \E ok \in BOOLEAN :
         /\ calls' = Append(calls, "files.delete")
         /\ IF ok
            THEN pc' = "delete_assistant" /\ UNCHANGED <<exit_code, pending>>
            ELSE Exit(1) /\ pending' = "Exception"
    /\ UNCHANGED <<inputs, resources, thread_msgs, runs, polls, prompts, results, resolver>>

\* chatgpt.py main, finally block: client.beta.assistants.delete(assistant.id),
\* then what was propagating goes on, or main returns
DeleteAssistant ==
    /\ pc = "delete_assistant"
    /\ \E ok \in BOOLEAN :
         /\ calls' = Append(calls, "assistants.delete")
         /\ IF ok
            THEN Exit(ExitStatus(pending)) /\ UNCHANGED pending
            ELSE Exit(1) /\ pending' = "Exception"
    /\ UNCHANGED <<inputs, resources, threadState, prompts, results, resolver>>

\* gemini.py upload_file
GeminiUploadFile ==
    /\ pc = "upload_file"
    /\ script = "gemini"
    /\ IF PathCheck(path_exists) = "sys_exit"
       THEN Exit(1) /\ UNCHANGED <<calls, file_obj>>
       ELSE \E ok \in BOOLEAN, sniffed \in {"application/pdf", ""},
               guessed \in {"application/pdf", ""} :
              /\ calls' = Append(calls, "upload_file")
              /\ IF ok
                 THEN /\ file_obj' = [id |-> "files/1", mime_type |-> MimeType(sniffed, guessed)]
                      /\ pc' = "pick_model"
                      /\ UNCHANGED exit_code
                 ELSE Exit(1) /\ UNCHANGED file_obj
    /\ UNCHANGED <<inputs, pending, assistant, thread, threadState, prompts, results, resolver>>

\* gemini.py get_model_response (tasks 1 and 2) and main (task 3): the call of
\* pick_available_model, which lists the models
PickModel ==
    /\ pc = "pick_model"
    /\ \E outcome \in ListOutcomes :
         LET r == pick_available_model(outcome)
         IN  /\ calls' = Append(calls, "list_models")
             /\ IF r.raised
                THEN Unwind("Exception") /\ UNCHANGED resolver
                ELSE /\ listed' = <<outcome>>
                     /\ model_name' = r.name
                     /\ pc' = "generate"
                     /\ UNCHANGED <<pending, exit_code>>
    /\ UNCHANGED <<inputs, resources, threadState, prompts, results>>

\* gemini.py: generate_content with the resolved model and the task's prompt
\* (with the file in tasks 1 and 2), and response.text
Generate ==
    /\ pc = "generate"
    /\ LET prompt == TaskPrompt(task, transcript, factual_feedback)
       IN  \E ok \in BOOLEAN, text \in Texts :
             /\ calls' = Append(calls, "generate_content")
             /\ prompts' = Append(prompts, prompt)
             /\ listed' = <<>>
             /\ model_name' = NoText
             /\ IF ok
                THEN /\ returned' = text
                     /\ pc' = "returned"
                     /\ UNCHANGED <<pending, exit_code>>
                ELSE /\ Unwind("Exception")
                     /\ UNCHANGED returned
    /\ UNCHANGED <<inputs, resources, threadState, task, transcript, factual_feedback,
                   plausibility_feedback, printed>>

\* gemini.py main, finally block: genai.delete_file(file_obj.name), then what
\* was propagating goes on, or main returns
GeminiDeleteFile ==
    /\ pc = "finally"
    /\ script = "gemini"
    /\ \E ok \in BOOLEAN :
         /\ calls' = Append(calls, "delete_file")
         /\ IF ok
            THEN Exit(ExitStatus(pending)) /\ UNCHANGED pending
            ELSE Exit(1) /\ pending' = "Exception"
    /\ UNCHANGED <<inputs, resources, threadState, prompts, results, resolver>>

Next ==
    \/ CheckArgv
    \/ UploadFile
    \/ CreateAssistant
    \/ CreateThread
    \/ CreateMessage
    \/ RunCreate
    \/ RunRetrieve
    \/ Sleep
    \/ ListMessages
    \/ StoreResult
    \/ DeleteFile
    \/ DeleteAssistant
    \/ GeminiUploadFile
    \/ PickModel
    \/ Generate
    \/ GeminiDeleteFile

Spec == Init /\ [][Next]_vars

-----------------------------------------------------------------------------
(* Vocabulary of the properties. *)

Count(seq, x) == Cardinality({ i \in 1..Len(seq) : seq[i] = x })
Last(seq) == seq[Len(seq)]
StatusesOf(seq) == [i \in 1..Len(seq) |-> seq[i].status]

\* a occurs in b as a run of consecutive words
Occurs(a, b) ==
    \E i \in 0..(Len(b) - Len(a)) : SubSeq(b, i + 1, i + Len(a)) = a

\* the provider calls issued since the last runs.create
SinceRunCreate ==
    LET at == { i \in 1..Len(calls) : calls[i] = "runs.create" }
        from == CHOOSE i \in at : \A j \in at : j <= i
    IN  SubSeq(calls, from + 1, Len(calls))

\* the last run is known to have ended in a fatal status
LastFatal == runs # <<>> /\ Last(runs).status \in Fatal

Cleanup == {"files.delete", "assistants.delete", "delete_file"}

-----------------------------------------------------------------------------
(* C1: when run_thread returns, it has fetched the status k+1 times for the *)
(* k non-terminal statuses followed by "completed" that the provider        *)
(* reported, has slept 2 seconds k times, strictly between the fetches      *)
(* (fetch, sleep, fetch, ..., fetch), has then listed the messages exactly  *)
(* once, and returns the first content block of the newest message.         *)
C1_PollUntilDone ==
    (script = "chatgpt" /\ pc = "returned") =>
        LET k == Cardinality({ i \in 1..Len(steps) :
                     steps[i].op = "retrieve" /\ steps[i].status \in NonTerminal })
        IN  /\ Len(steps) = 2 * k + 2
            /\ \A i \in 1..k :
                 /\ steps[2 * i - 1].op = "retrieve"
                 /\ steps[2 * i - 1].status \in NonTerminal
                 /\ steps[2 * i].op = "sleep"
                 /\ steps[2 * i].secs = 2
            /\ steps[2 * k + 1].op = "retrieve"
            /\ steps[2 * k + 1].status = "completed"
            /\ steps[2 * k + 2].op = "list"
            /\ Len(Fetches) = k + 1
            /\ Len(Sleeps) = k
            /\ Len(Lists) = 1
            /\ Count(SinceRunCreate, "runs.retrieve") = k + 1
            /\ Count(SinceRunCreate, "messages.list") = 1
            /\ returned = Last(thread_msgs).content[1]
            /\ Last(thread_msgs).role = "assistant"

\* run_thread has returned after the statuses queued, in_progress, in_progress,
\* completed: four fetches
C1_Witness ==
    /\ script = "chatgpt"
    /\ pc = "returned"
    /\ StatusesOf(Fetches) = <<"queued", "in_progress", "in_progress", "completed">>
    /\ Len(Fetches) = 4
    /\ Len(Last(thread_msgs).content) = 2

(* C2: the fetch that reports failed, cancelled or expired is the last thing *)
(* run_thread does: the process goes to its cleanup with exit status 1      *)
(* pending, and from then on there is no status fetch, no sleep, no message *)
(* listing, no new message or run and no result text.                       *)
C2_FatalAborts ==
    [][ /\ (LastFatal' /\ ~LastFatal) =>
              /\ pc' = "finally"
              /\ pending' = "SystemExit"
              /\ Last(steps').op = "retrieve"
              /\ Last(steps').status = Last(runs').status
              /\ \A i \in 1..(Len(Fetches') - 1) : Fetches'[i].status \in NonTerminal
              /\ Len(Fetches') = Count(SinceRunCreate', "runs.retrieve")
        /\ LastFatal =>
              /\ calls' = calls \/ (calls' = Append(calls, Last(calls')) /\ Last(calls') \in Cleanup)
              /\ steps' = steps \/ steps' = <<>>
              /\ returned' = NoText
              /\ printed' = printed
              /\ runs' = runs
              /\ thread_msgs' = thread_msgs
              /\ exit_code' \in {-1, 1}
              /\ pc' \in {"finally", "delete_assistant", "exit"}
      ]_vars

\* a run reported failed on the second check and the process has ended
C2_Witness ==
    /\ LastFatal
    /\ Last(runs).status = "failed"
    /\ Count(SinceRunCreate, "runs.retrieve") = 2
    /\ pc = "exit"

\* the try block of main has been entered
InTry == IF script = "chatgpt" THEN thread # NoneVal ELSE file_obj # NoFile

(* C3: once the task block has been entered, the process ends with the      *)
(* delete of the uploaded file issued exactly once and, in the Assistant    *)
(* path, the delete of the assistant issued exactly once.                   *)
C3_CleanupExactlyOnce ==
    (pc = "exit" /\ InTry) =>
        /\ Count(calls, "files.delete") + Count(calls, "delete_file") = 1
        /\ script = "chatgpt" => Count(calls, "assistants.delete") = 1

(* C4: a process whose upload returned a file ends only after a delete of   *)
(* that file has been issued.                                               *)
C4_FileReleased ==
    (pc = "exit" /\ file_obj # NoFile) =>
        Count(calls, "files.delete") + Count(calls, "delete_file") >= 1

(* C5: when the path does not exist, the process ends in upload_file with   *)
(* exit status 1 and no provider call is ever issued.                       *)
C5_MissingFile ==
    (argv_given /\ ~path_exists) =>
        /\ calls = <<>>
        /\ pc \in {"main", "upload_file", "exit"}
        /\ pc = "exit" => exit_code = 1
        /\ file_obj = NoFile /\ assistant = NoneVal /\ thread = NoneVal

\* the process has ended on a path that does not exist
C5_Witness == argv_given /\ ~path_exists /\ pc = "exit" /\ exit_code = 1

\* the models of a listing that can generate content
Capable(available) ==
    { available[i] : i \in { j \in 1..Len(available) :
          available[j].has_methods /\ "generateContent" \in available[j].methods } }

\* the priority indexes some capable model of the listing ends with
Matched(available) ==
    { i \in 1..Len(priority_suffixes) :
          \E m \in Capable(available) : EndsWith(m.name, priority_suffixes[i]) }

(* C6: when the listing holds a capable model whose name ends with a        *)
(* priority suffix, the resolved name is the name of a capable model and    *)
(* ends with the earliest-indexed such suffix, with no later-indexed one,   *)
(* wherever the models stand in the listing.                                *)
C6_ResolverPriority ==
    (pc = "generate" /\ listed # <<>> /\ ~listed[1].threw) =>
        LET available == listed[1].models
            matched == Matched(available)
            best == CHOOSE i \in matched : \A j \in matched : i <= j
        IN  matched # {} =>
              /\ EndsWith(model_name, priority_suffixes[best])
              /\ \A i \in 1..Len(priority_suffixes) :
                    i > best => ~EndsWith(model_name, priority_suffixes[i])
              /\ \E m \in Capable(available) : m.name = model_name

\* a listing whose first model ends with the first suffix but cannot generate,
\* whose second ends with the last suffix and whose third with the second one
C6_Witness ==
    /\ pc = "generate"
    /\ listed # <<>>
    /\ ~listed[1].threw
    /\ listed[1].models =
         << Model(Chars_models \o Chars_gemini_20_flash, TRUE, {"embedContent"}),
            Model(Chars_models \o Chars_gemini_15_pro, TRUE, {"generateContent"}),
            Model(Chars_models \o Chars_gemini_20_flash \o Chars_lite, TRUE, {"generateContent"}) >>
    /\ model_name = Chars_models \o Chars_gemini_20_flash \o Chars_lite

(* C7: a listing call that raises never unwinds the process: the resolution *)
(* yields gemini-1.5-flash-8b and the process stands before the generation  *)
(* call with that model, nothing pending.                                   *)
C7_ResolverDegrades ==
    (calls # <<>> /\ Last(calls) = "list_models") =>
        /\ pc = "generate"
        /\ pending = "none"
        /\ exit_code = -1
        /\ listed # <<>>
        /\ listed[1].threw =>
             model_name = <<"g","e","m","i","n","i","-","1",".","5","-","f","l","a","s","h","-","8","b">>

\* the listing of the third task's resolution raised
C7_Witness ==
    /\ pc = "generate"
    /\ task = 3
    /\ listed # <<>>
    /\ listed[1].threw
    /\ model_name = DefaultModel

(* C8: in both scripts the second prompt submitted is the factual template  *)
(* with the first result in it and the third is the plausibility template   *)
(* with the first result in it; the second result, when the first does not  *)
(* contain it, does not occur in the third prompt.                          *)
C8_PromptChaining ==
    /\ Len(prompts) >= 1 => prompts[1] = <<"Generate:">>
    /\ Len(prompts) >= 2 => prompts[2] = <<"Check facts:">> \o printed[1]
    /\ Len(prompts) >= 3 =>
         /\ prompts[3] = <<"Check plausibility:">> \o printed[1]
         /\ ~Occurs(printed[2], printed[1]) => ~Occurs(printed[2], prompts[3])
    /\ Len(prompts) <= 3

\* three prompts submitted by the Assistant script, the first two results differ
C8_Witness ==
    /\ script = "chatgpt"
    /\ Len(prompts) = 3
    /\ Len(printed) = 3
    /\ printed[1] = <<"T1">>
    /\ printed[2] = <<"T2">>
    /\ prompts[3] = <<"Check plausibility:", "T1">>

\* the messages created by the script on the thread
UserMessages == SelectSeq(thread_msgs, LAMBDA m : m.role = "user")

\* the calls that create a message or a run, in the order issued
Creations == SelectSeq(calls, LAMBDA c : c \in {"messages.create", "runs.create"})

(* C9: on the thread, message and run creations alternate, one message then *)
(* one run per task; a task's message is created only after every earlier   *)
(* run is completed and its result read; at most one run is non-terminal at *)
(* any moment; after a run ended in a fatal status nothing more is created. *)
C9_SequentialThread ==
    script = "chatgpt" =>
        /\ \A i \in 1..Len(Creations) :
              Creations[i] = IF i % 2 = 1 THEN "messages.create" ELSE "runs.create"
        /\ Len(runs) <= Len(UserMessages)
        /\ Len(UserMessages) <= Len(runs) + 1
        /\ Len(UserMessages) <= 3
        /\ Len(UserMessages) <= Len(printed) + 1
        /\ \A i \in 1..Len(UserMessages) - 1 : runs[i].status = "completed"
        /\ Cardinality({ i \in 1..Len(runs) : runs[i].status \notin Fatal \cup {"completed"} }) <= 1
        /\ \A i \in 1..Len(runs) :
              runs[i].status \in Fatal =>
                /\ i = Len(runs)
                /\ Len(UserMessages) = Len(runs)
                /\ pc \in {"finally", "delete_assistant", "exit"}
                /\ Last(Creations) = "runs.create"

\* the third run is being polled after two completed runs
C9_Witness ==
    /\ script = "chatgpt"
    /\ Len(runs) = 3
    /\ runs[1].status = "completed"
    /\ runs[2].status = "completed"
    /\ runs[3].status = "in_progress"
    /\ pc = "sleep"

\* a run of this invocation is known to have ended in a fatal status
SawFatal == \E i \in 1..Len(runs) : runs[i].status \in Fatal

(* C10: the process ends with status 1 when the path argument is missing,   *)
(* the file does not exist or a run ended in a fatal status, and with       *)
(* status 0 whenever all three task results have been printed.              *)
C10_ExitCode ==
    pc = "exit" =>
        /\ (~argv_given \/ ~path_exists \/ SawFatal) => exit_code = 1
        /\ Len(printed) = 3 => exit_code = 0


Uploads == {"files.create", "upload_file"}
FileDeletes == {"files.delete", "delete_file"}
CountIn(seq, S) == Cardinality({ i \in 1..Len(seq) : seq[i] \in S })

(* C11: at most one file and at most one thread are created, and a process  *)
(* that has ended has released the file and the thread it created.          *)
C11_ResourceInvariant ==
    /\ CountIn(calls, Uploads) <= 1
    /\ Count(calls, "threads.create") <= 1
    /\ pc = "exit" =>
         /\ file_obj # NoFile => CountIn(calls, FileDeletes) >= 1
         /\ thread # NoneVal => Count(calls, "threads.delete") >= 1

(* C12: a delete is issued at most once per resource and only after that    *)
(* resource was created by this invocation; when the upload itself raises,  *)
(* the process ends with status 1 having issued no other provider call and  *)
(* created no assistant, thread, message or run.                            *)
C12_CleanupOnlyCreated ==
    /\ CountIn(calls, FileDeletes) <= 1
    /\ Count(calls, "assistants.delete") <= 1
    /\ \A i \in 1..Len(calls) :
         /\ calls[i] \in FileDeletes =>
              /\ file_obj # NoFile
              /\ \E j \in 1..(i - 1) : calls[j] \in Uploads
         /\ calls[i] = "assistants.delete" =>
              /\ assistant # NoneVal
              /\ \E j \in 1..(i - 1) : calls[j] = "assistants.create"
    /\ (calls # <<>> /\ file_obj = NoFile) =>
         /\ Len(calls) = 1
         /\ calls[1] \in Uploads
         /\ pc = "exit"
         /\ exit_code = 1
         /\ assistant = NoneVal /\ thread = NoneVal
         /\ thread_msgs = <<>> /\ runs = <<>> /\ prompts = <<>>

\* the upload of the Assistant script raised and the process has ended
C12_Witness ==
    /\ script = "chatgpt"
    /\ calls = <<"files.create">>
    /\ file_obj = NoFile
    /\ pc = "exit"


\* the positions of a listing that hold a model able to generate content
CapableAt(available) ==
    { j \in 1..Len(available) :
          available[j].has_methods /\ "generateContent" \in available[j].methods }

C14_NoModelCaching ==
    script = "gemini" =>
        LET nList == Count(calls, "list_models")
            nGen == Count(calls, "generate_content")
        IN  /\ \A i \in 1..Len(calls) :
                 /\ calls[i] = "generate_content" => (i > 1 /\ calls[i - 1] = "list_models")
                 /\ (calls[i] = "list_models" /\ i < Len(calls)) =>
                      calls[i + 1] = "generate_content"
            /\ nList = IF pc = "generate" THEN nGen + 1 ELSE nGen
            /\ Len(printed) = 3 => (nList = 3 /\ nGen = 3)
            /\ nGen <= 3
            /\ pc = "generate" <=> listed # <<>>
            /\ pc # "generate" => model_name = NoText

\* the Gemini script has ended after three listings and three generation calls
C14_Witness ==
    /\ script = "gemini"
    /\ pc = "exit"
    /\ exit_code = 0
    /\ Count(calls, "list_models") = 3
    /\ Count(calls, "generate_content") = 3
    /\ Len(printed) = 3


\* the four statuses that end the polling
Ending == {"completed", "failed", "cancelled", "expired"}
InLoop(p) == p \in {"retrieve", "sleep"}

(* C15: a status fetch that returns leaves the polling loop exactly when    *)
(* the status is completed, failed, cancelled or expired; any other status, *)
(* known to the specification or not, leads to the 2-second sleep and from  *)
(* there to the next fetch; the loop is left in no other way than by such a *)
(* status or by the fetch call raising, however many fetches were made.     *)
C15_PollingExits ==
    [][ /\ (pc = "retrieve" /\ steps' # steps) =>
              /\ steps' = Append(steps, Last(steps'))
              /\ Last(steps').op = "retrieve"
              /\ Last(steps').status = "completed" => pc' = "list_messages"
              /\ Last(steps').status \in (Ending \ {"completed"}) =>
                    (pc' = "finally" /\ pending' = "SystemExit")
              /\ Last(steps').status \notin Ending => pc' = "sleep"
        /\ pc = "sleep" =>
              /\ pc' = "retrieve"
              /\ steps' = Append(steps, [op |-> "sleep", status |-> NoneVal, secs |-> 2])
              /\ calls' = calls
        /\ (InLoop(pc) /\ ~InLoop(pc')) =>
              \/ /\ steps' # steps
                 /\ Last(steps').op = "retrieve"
                 /\ Last(steps').status \in Ending
              \/ /\ pc = "retrieve"
                 /\ steps' = steps
                 /\ pc' = "finally"
                 /\ pending' = "Exception"
      ]_vars

\* the third fetch of a run reported a status outside the specification's
\* enumeration and run_thread is sleeping before the fourth
C15_Witness ==
    /\ pc = "sleep"
    /\ Len(Fetches) = 3
    /\ StatusesOf(Fetches) = <<"queued", "in_progress", "requires_action">>


(* C16: in the cleanup of the Assistant script the assistant delete is      *)
(* issued only directly after a file delete that returned; a file delete    *)
(* that raises ends the process with that error, status 1, and the          *)
(* assistant is never deleted.                                              *)
C16_CleanupOrdering ==
    [][ /\ calls' = Append(calls, "files.delete") =>
              \/ pc' = "delete_assistant" /\ pending' = pending /\ exit_code' = -1
              \/ /\ pc' = "exit"
                 /\ pending' = "Exception"
                 /\ exit_code' = 1
                 /\ Count(calls', "assistants.delete") = 0
        /\ calls' = Append(calls, "assistants.delete") =>
              /\ pc = "delete_assistant"
              /\ calls # <<>> /\ Last(calls) = "files.delete"
              /\ Count(calls, "assistants.delete") = 0
              /\ pc' = "exit"
        /\ pc = "delete_assistant" => calls' = Append(calls, "assistants.delete")
        /\ pc = "exit" => UNCHANGED vars
      ]_vars

\* all three results were printed, the file delete raised and the process has
\* ended with the assistant still there
C16_Witness ==
    /\ script = "chatgpt"
    /\ pc = "exit"
    /\ exit_code = 1
    /\ Len(printed) = 3
    /\ Last(calls) = "files.delete"
    /\ assistant # NoneVal
    /\ Count(calls, "assistants.delete") = 0

====
